---- MODULE Spec2Model ----
(***************************************************************************)
(* Model of the stub generator of src/src/scope_analyzer.py: the scope     *)
(* stack, the stub registry, expression type inference, the single-pass    *)
(* AST visitor (TUVisitor) and the stub emitter.                            *)
(*                                                                         *)
(* The translation unit is not fixed in advance: the walk is depth-first   *)
(* and single-pass, so every step of the model chooses the next AST node   *)
(* the visitor meets.  The behaviours of Spec are therefore the walks over *)
(* all translation units that can be built from the node sets below.       *)
(*                                                                         *)
(* A C type string is a sequence of tokens: "void*" is <<"void","*">>,     *)
(* and f"{base} *" appends the tokens " " and "*".                         *)
(***************************************************************************)
EXTENDS Integers, Sequences, FiniteSets, TLC

----------------------------------------------------------------------------
(* Bounds of the model *)

\* AST statements (Decl, FuncCall, Return) met in one walk
MaxStmts == 2
\* function definitions met in one walk
MaxFuncs == 2
\* compound blocks open at the same time
MaxNest == 1
\* callbacks registered on registry records during one walk
MaxCbs == 1
\* callbacks registered on the stand-alone record
MaxRecCbs == 2
\* fire / post_fire calls on the stand-alone record
MaxFires == 3

----------------------------------------------------------------------------
(* Values *)

\* Python's None (never a type string)
None == <<"<None>">>

VoidPtr == <<"void", "*">>
Void == <<"void">>
IntT == <<"int">>
FooT == <<"FOO">>

\* Python's `v or d`: None and the empty string are both falsy
Or(v, d) == IF v = None \/ v = <<>> THEN d ELSE v

\* str.strip() on a token sequence: drop leading and trailing blanks
RECURSIVE Strip(_)
Strip(s) ==
    IF s = <<>> THEN s
    ELSE IF Head(s) = " " THEN Strip(Tail(s))
    ELSE IF s[Len(s)] = " " THEN Strip(SubSeq(s, 1, Len(s) - 1))
    ELSE s

\* sep.join(parts), parts a sequence of token sequences
RECURSIVE Join(_, _)
Join(sep, parts) ==
    IF parts = <<>> THEN <<>>
    ELSE IF Len(parts) = 1 THEN parts[1]
    ELSE parts[1] \o sep \o Join(sep, Tail(parts))

\* number of pointer levels a type string spells
IsStar(tok) == tok = "*"

PtrDepth(t) == Len(SelectSeq(t, IsStar))

----------------------------------------------------------------------------
(* AST nodes (pycparser.c_ast) *)

\* expressions: ID, UnaryOp, FuncCall (name an ID), FuncCall through a
\* function pointer, Constant.  sub holds the operand / the arguments;
\* a FuncCall with sub = <<>> is one whose args attribute is None.
ID(n) == [k |-> "ID", name |-> n, sub |-> <<>>]
AddrOf(e) == [k |-> "UnaryOp", name |-> "&", sub |-> <<e>>]
Call(n, args) == [k |-> "FuncCall", name |-> n, sub |-> args]
PtrCall(args) == [k |-> "FuncCallPtr", name |-> "*fp", sub |-> args]
Const == [k |-> "Constant", name |-> "1", sub |-> <<>>]
NoExpr == [k |-> "None", name |-> "", sub |-> <<>>]

\* type nodes: IdentifierType, TypeDecl, PtrDecl, ArrayDecl, FuncDecl,
\* Struct.  inner holds the wrapped type (at most one), decls the parameter
\* declarations of a FuncDecl or the members of a Struct.
IdentifierType(names) == [k |-> "IdentifierType", names |-> names, inner |-> <<>>, decls |-> <<>>]
TypeDecl(t) == [k |-> "TypeDecl", names |-> <<>>, inner |-> <<t>>, decls |-> <<>>]
PtrDecl(t) == [k |-> "PtrDecl", names |-> <<>>, inner |-> <<t>>, decls |-> <<>>]
ArrayDecl(t, dim) == [k |-> "ArrayDecl", names |-> <<dim>>, inner |-> <<t>>, decls |-> <<>>]
FuncDecl(params, t) == [k |-> "FuncDecl", names |-> <<>>, inner |-> <<t>>, decls |-> params]
Struct(n, members) == [k |-> "Struct", names |-> <<n>>, inner |-> <<>>, decls |-> members]

\* Decl(name, type, init)
Decl(n, t, init) == [name |-> n, type |-> t, init |-> init]

\* FuncDef: decl.type is a FuncDecl; the body is a Compound
FuncDef(ret, params) == [ret |-> ret, params |-> params]

TInt == TypeDecl(IdentifierType(<<"int">>))
TFoo == TypeDecl(IdentifierType(<<"FOO">>))
TVoid == TypeDecl(IdentifierType(<<"void">>))


----------------------------------------------------------------------------
(* type_to_str *)

RECURSIVE type_to_str(_)
RECURSIVE type_to_str_params(_)
\* the parameter types of a FuncDecl, each stringified
type_to_str_params(ps) ==
    IF ps = <<>> THEN <<>>
    ELSE <<type_to_str(Head(ps).type)>> \o type_to_str_params(Tail(ps))

type_to_str(t) ==
    CASE t.k = "IdentifierType" -> Join(<<" ">>, [i \in 1..Len(t.names) |-> <<t.names[i]>>])
      [] t.k = "Struct" -> <<"struct", " ", IF t.names[1] = "" THEN "anon" ELSE t.names[1]>>
      [] t.k = "TypeDecl" -> type_to_str(t.inner[1])
      [] t.k = "PtrDecl" -> type_to_str(t.inner[1]) \o <<"*">>
      [] t.k = "ArrayDecl" -> type_to_str(t.inner[1]) \o <<"[", t.names[1], "]">>
      [] t.k = "FuncDecl" ->
            type_to_str(t.inner[1]) \o <<" ", "(">>
                \o Join(<<",", " ">>, type_to_str_params(t.decls)) \o <<")">>
      [] OTHER -> <<t.k>>

----------------------------------------------------------------------------
(* ScopeFrame and ScopeStack.  The stack is a sequence, its top the last    *)
(* element; symbols is a function from the bound names to type strings.     *)

EmptySymbols == [n \in {} |-> <<>>]

ScopeFrame == [symbols |-> EmptySymbols, is_func |-> FALSE, ret_type |-> None]

push_block(s) == Append(s, ScopeFrame)

push_func(s, ret) == Append(s, [symbols |-> EmptySymbols, is_func |-> TRUE, ret_type |-> ret])

\* variant: the frame is left on the stack
pop_keep(s) == s

pop(s) == SubSeq(s, 1, Len(s) - 1)

\* dict assignment: insert or overwrite
DictSet(d, key, v) == [x \in DOMAIN d \cup {key} |-> IF x = key THEN v ELSE d[x]]

\* variant: bind in the global frame instead of the top frame
add_var_global(s, name, typ) ==
    [s EXCEPT ![1].symbols = DictSet(s[1].symbols, name, typ)]

add_var(s, name, typ) ==
    [s EXCEPT ![Len(s)].symbols = DictSet(s[Len(s)].symbols, name, typ)]

\* variant: the outermost binding wins
find_var_outer(s, name) ==
    LET hits == {i \in 1..Len(s) : name \in DOMAIN s[i].symbols}
    IN  IF hits = {} THEN None
        ELSE s[CHOOSE i \in hits : \A j \in hits : j >= i].symbols[name]

find_var(s, name) ==
    LET hits == {i \in 1..Len(s) : name \in DOMAIN s[i].symbols}
    IN  IF hits = {} THEN None
        ELSE s[CHOOSE i \in hits : \A j \in hits : j <= i].symbols[name]

\* variant: only the top frame is asked
enclosing_ret_top(s) ==
    IF s[Len(s)].is_func THEN s[Len(s)].ret_type ELSE None

enclosing_ret(s) ==
    LET fs == {i \in 1..Len(s) : s[i].is_func}
    IN  IF fs = {} THEN None
        ELSE s[CHOOSE i \in fs : \A j \in fs : j <= i].ret_type

----------------------------------------------------------------------------
(* StubInfo *)

StubInfo(is_stub, ret_type, param_types) ==
    [is_stub |-> is_stub, ret_type |-> ret_type, param_types |-> param_types, cbs |-> <<>>]

\* add_cb: the callback is appended to the record's list
add_cb(info, cb) == [info EXCEPT !.cbs = Append(@, cb)]

\* the calls one firing makes: every listed callback, in order, with typ
Calls(cbs, typ) == [i \in 1..Len(cbs) |-> <<cbs[i], typ>>]

\* variant of fire: the list of callbacks is kept
fire_keep(info, real) ==
    [info |-> [info EXCEPT !.ret_type = real], calls |-> Calls(info.cbs, real)]

\* fire(real): returns the record afterwards and the callback calls made
fire(info, real) ==
    [info |-> [info EXCEPT !.ret_type = real, !.cbs = <<>>],
     calls |-> Calls(info.cbs, real)]

\* post_fire()
post_fire(info) ==
    [info |-> [info EXCEPT !.cbs = <<>>], calls |-> Calls(info.cbs, info.ret_type)]

----------------------------------------------------------------------------
(* The visitor's state: scope stack and registry.  stubs is the dict (a     *)
(* function from names to StubInfo), order its insertion order.  how and    *)
(* lastArgs are history: which line created a record, and the argument      *)
(* types inferred at the call site of a name that was visited last.         *)

\* the whitelist handed to TUVisitor
Interesting == {"w", "h"}

EmptyDict == [n \in {} |-> <<>>]

\* stubs[name] = info
SetStub(st, name, info) ==
    [st EXCEPT !.stubs = DictSet(st.stubs, name, info),
               !.order = IF name \in DOMAIN st.stubs THEN @ ELSE Append(@, name)]

\* history: names that became keys between st0 and st get the tag
Tagged(st0, st, tag) ==
    [st EXCEPT !.how = [n \in DOMAIN st.stubs |->
                            IF n \in DOMAIN st0.stubs THEN st0.how[n] ELSE tag]]

----------------------------------------------------------------------------
(* infer_expr_type: returns the type string and the state afterwards        *)

\* variant of lines 76-81: the placeholder is registered whether or not the
\* name has a record
infer_call_fresh(fname, st) ==
    [t |-> VoidPtr,
     st |-> Tagged(st, SetStub(st, fname, StubInfo(TRUE, VoidPtr, <<>>)), "nested")]

\* lines 76-81: a nested call to fname
infer_call(fname, st) ==
    IF fname \in DOMAIN st.stubs
    THEN [t |-> st.stubs[fname].ret_type, st |-> st]
    ELSE [t |-> VoidPtr,
          st |-> Tagged(st, SetStub(st, fname, StubInfo(TRUE, VoidPtr, <<>>)), "nested")]

\* variant of line 73: the operand's type is returned as it is
address_of_same(base) == base

\* line 73: f"{base} *"
address_of(base) == base \o <<" ", "*">>

RECURSIVE infer_expr_type(_, _)
infer_expr_type(expr, st) ==
    CASE expr.k = "ID" ->
            [t |-> Or(find_var(st.stack, expr.name), VoidPtr), st |-> st]
      [] expr.k = "UnaryOp" /\ expr.name = "&" ->
            LET base == infer_expr_type(expr.sub[1], st)
            IN  [t |-> address_of(base.t), st |-> base.st]
      [] expr.k = "FuncCall" -> infer_call(expr.name, st)
      [] OTHER -> [t |-> IntT, st |-> st]

\* lines 177-178: the arguments in order, each inferred in the state the
\* previous one left
RECURSIVE infer_args(_, _)
infer_args(exprs, st) ==
    IF exprs = <<>> THEN [ts |-> <<>>, st |-> st]
    ELSE LET a == infer_expr_type(Head(exprs), st)
             r == infer_args(Tail(exprs), a.st)
         IN  [ts |-> <<a.t>> \o r.ts, st |-> r.st]

----------------------------------------------------------------------------
(* TUVisitor: expressions *)

\* variant of the upsert: the first call site's parameters are kept
upsert_first(st, fname, param_types) ==
    IF fname \in DOMAIN st.stubs THEN st
    ELSE SetStub(st, fname, StubInfo(TRUE, VoidPtr, param_types))

\* visit_FuncCall, lines 182-187
upsert(st, fname, param_types) ==
    IF fname \in DOMAIN st.stubs
    THEN [st EXCEPT !.stubs[fname].param_types = param_types]
    ELSE SetStub(st, fname, StubInfo(TRUE, VoidPtr, param_types))

RECURSIVE visit_expr(_, _)
RECURSIVE visit_exprs(_, _)
RECURSIVE visit_FuncCall(_, _)
RECURSIVE visit_args(_, _)

\* variant of line 190: the arguments of an interesting call are not visited
visit_args_skip(node, st) == st

\* line 190: generic_visit of an interesting call, into its arguments
visit_args(node, st) == visit_exprs(node.sub, st)

\* generic_visit of an expression node: its children in order
visit_exprs(exprs, st) ==
    IF exprs = <<>> THEN st
    ELSE visit_exprs(Tail(exprs), visit_expr(Head(exprs), st))

\* NodeVisitor.visit: visit_FuncCall for a FuncCall, generic_visit otherwise
visit_expr(expr, st) ==
    IF expr.k \in {"FuncCall", "FuncCallPtr"} THEN visit_FuncCall(expr, st)
    ELSE visit_exprs(expr.sub, st)

visit_FuncCall(node, st) ==
    IF node.k = "FuncCallPtr" THEN visit_exprs(node.sub, st)
    ELSE IF node.name \notin Interesting THEN visit_exprs(node.sub, st)
    ELSE LET inf == infer_args(node.sub, st)
             param_types == IF node.sub # <<>> THEN inf.ts ELSE <<Void>>
             up == Tagged(inf.st, upsert(inf.st, node.name, param_types), "call")
             noted == [up EXCEPT !.lastArgs =
                                DictSet(@, node.name,
                                        [types |-> param_types, node |-> node])]
         IN  visit_args(node, noted)

\* variant of the return heuristic: an existing record is overwritten
return_heuristic_overwrite(st, callee, guessed) ==
    IF callee \in Interesting
    THEN IF callee \in DOMAIN st.stubs
         THEN [st EXCEPT !.stubs[callee].ret_type = Or(guessed, VoidPtr)]
         ELSE SetStub(st, callee, StubInfo(TRUE, Or(guessed, VoidPtr), <<>>))
    ELSE st

\* visit_Return, lines 196-198
return_heuristic(st, callee, guessed) ==
    IF callee \in Interesting /\ callee \notin DOMAIN st.stubs
    THEN SetStub(st, callee, StubInfo(TRUE, Or(guessed, VoidPtr), <<>>))
    ELSE st

\* visit_Return; expr is NoExpr for `return;`
visit_Return(expr, st) ==
    LET st1 == IF expr.k = "FuncCall"
               THEN Tagged(st, return_heuristic(st, expr.name, enclosing_ret(st.stack)),
                           "return")
               ELSE st
    IN  IF expr = NoExpr THEN st1 ELSE visit_expr(expr, st1)

----------------------------------------------------------------------------
(* TUVisitor: declarations *)

RECURSIVE visit_Decl(_, _)
RECURSIVE visit_Decls(_, _)
RECURSIVE visit_type(_, _)

\* the Decl children of a ParamList or of a Struct, in order
visit_Decls(ds, st) ==
    IF ds = <<>> THEN st
    ELSE visit_Decls(Tail(ds), visit_Decl(Head(ds), st))

\* generic_visit of a type node: the wrapped type, then the parameter or
\* member declarations (FuncDecl: args before type; Struct: decls)
visit_type(t, st) ==
    CASE t.k = "FuncDecl" -> visit_type(t.inner[1], visit_Decls(t.decls, st))
      [] t.k = "Struct" -> visit_Decls(t.decls, st)
      [] t.k \in {"TypeDecl", "PtrDecl", "ArrayDecl"} -> visit_type(t.inner[1], st)
      [] OTHER -> st

visit_Decl(node, st) ==
    LET typ == type_to_str(node.type)
        st1 == [st EXCEPT !.stack = add_var(st.stack, node.name, typ)]
        st2 == visit_type(node.type, st1)
    IN  IF node.init = NoExpr THEN st2 ELSE visit_expr(node.init, st2)

\* visit_FuncDef, lines 146-153: push the function frame, bind the parameters
RECURSIVE bind_params(_, _)
bind_params(ps, s) ==
    IF ps = <<>> THEN s
    ELSE bind_params(Tail(ps), add_var(s, Head(ps).name, type_to_str(Head(ps).type)))

enter_FuncDef(node, s) ==
    bind_params(node.params, push_func(s, type_to_str(node.ret)))

----------------------------------------------------------------------------
(* emit_stubs: the pieces written to the output file, in dict order.  Every *)
(* piece is STUB_TEMPLATE filled in: a function definition with a body.     *)

\* f"arg{i}"
ArgName(i) == <<"arg", ToString(i)>>

emit_piece(name, info) ==
    LET params == Or(Join(<<",", " ">>, info.param_types), <<"void">>)
        dummy == Or(Join(<<",", " ">>,
                         [i \in 1..Len(info.param_types) |-> ArgName(i - 1)]), <<"0">>)
        ret_stmt == IF Strip(info.ret_type) = Void THEN <<>> ELSE <<"return", "0">>
    IN  [form |-> "definition", ret |-> info.ret_type, name |-> name,
         params |-> params, dummy |-> dummy, ret_stmt |-> ret_stmt]

RECURSIVE emit_stubs(_, _)
emit_stubs(stubs, order) ==
    IF order = <<>> THEN <<>>
    ELSE (IF stubs[Head(order)].is_stub
          THEN <<emit_piece(Head(order), stubs[Head(order)])>> ELSE <<>>)
         \o emit_stubs(stubs, Tail(order))

----------------------------------------------------------------------------
(* The nodes the walk can meet *)

Vars == {"x", "y"}

\* callee names: w and h are on the whitelist, g is not
Callees == {"w", "h", "g"}

\* call expressions met as statements:
\*   w(); w(x); w(&x, &&x); w(w(x)); w(h(), x);
\*   h(g(), 1); h(w()); g(w(x)); (*fp)(h())
CallExprs ==
    { Call("w", <<>>),
      Call("w", <<ID("x")>>),
      Call("w", <<AddrOf(ID("x")), AddrOf(AddrOf(ID("x")))>>),
      Call("w", <<Call("w", <<ID("x")>>)>>),
      Call("w", <<Call("h", <<>>), ID("x")>>),
      Call("h", <<Call("g", <<>>), Const>>),
      Call("h", <<Call("w", <<>>)>>),
      Call("g", <<Call("w", <<ID("x")>>)>>),
      PtrCall(<<Call("h", <<>>)>>) }

\* returned expressions:
\*   return; return w(); return w(x); return h(w()); return g();
ReturnExprs ==
    { NoExpr,
      Call("w", <<>>),
      Call("w", <<ID("x")>>),
      Call("h", <<Call("w", <<>>)>>),
      Call("g", <<>>) }

\* declarations: int x; FOO x; int *y(FOO x); struct S { int x; } y;
\* FOO x = w();
Decls ==
    { Decl("x", TInt, NoExpr),
      Decl("x", TFoo, NoExpr),
      Decl("y", FuncDecl(<<Decl("x", TFoo, NoExpr)>>, PtrDecl(TInt)), NoExpr),
      Decl("y", TypeDecl(Struct("S", <<Decl("x", TInt, NoExpr)>>)), NoExpr),
      Decl("x", TFoo, Call("w", <<>>)) }

\* function definitions: int f(int x) {..}; FOO f() {..}; void f(FOO x) {..}
FuncDefs ==
    { FuncDef(TInt, <<Decl("x", TInt, NoExpr)>>),
      FuncDef(TFoo, <<>>),
      FuncDef(TVoid, <<Decl("x", TFoo, NoExpr)>>) }

\* the names called anywhere in an expression
RECURSIVE CallsIn(_)
RECURSIVE CallsInAll(_)
CallsInAll(es) == IF es = <<>> THEN {} ELSE CallsIn(Head(es)) \cup CallsInAll(Tail(es))
CallsIn(e) == (IF e.k = "FuncCall" THEN {e.name} ELSE {}) \cup CallsInAll(e.sub)

----------------------------------------------------------------------------
(* State *)

VARIABLES
    stack,      \* TUVisitor.scope._stack
    stubs,      \* TUVisitor.stubs
    order,      \* insertion order of the keys of stubs
    open,       \* the visits of FuncDef / Compound nodes in progress
    pc,         \* "walk", "done" (visit returned), "emitted"; "record" in SpecRecord
    out,        \* the pieces emit_stubs wrote
    rec,        \* a StubInfo used on its own (SpecRecord)
    invoked,    \* the callback calls made so far: <<callback, type, firing>>
    how,        \* history: what created each record
    lastArgs,   \* history: the last call site of a name and the types inferred there
    seen,       \* history: how each name occurred in the unit so far
    last,       \* history: the step just taken
    first,      \* history: the type of the first fire on rec
    subs,       \* history: subs[cb] is the name callback cb subscribed to
    nstmt, nfunc, ncb, nfire

vars == <<stack, stubs, order, open, pc, out, rec, invoked, how, lastArgs, seen,
          last, first, subs, nstmt, nfunc, ncb, nfire>>

St == [stack |-> stack, stubs |-> stubs, order |-> order, how |-> how,
       lastArgs |-> lastArgs]

Commit(st) ==
    /\ stack' = st.stack
    /\ stubs' = st.stubs
    /\ order' = st.order
    /\ how' = st.how
    /\ lastArgs' = st.lastArgs

\* find_var of every name, as the visitor would get it now
Lookups(s) == [n \in Vars |-> find_var(s, n)]

\* history: the names the top frame binds to another type than the one
\* find_var gave when the frame was pushed
Hidden(s, saved) ==
    {n \in Vars : /\ n \in DOMAIN s[Len(s)].symbols
                  /\ s[Len(s)].symbols[n] # saved[n]}

\* the compound blocks open around the node being visited
Nesting == Cardinality({i \in 1..Len(open) : open[i].kind = "Compound"})

\* the declared return type of the function definition being visited
Declared == open[1].ret

NoSeen == [n \in Callees |-> {}]

\* history: the occurrences of callee names in a statement; tag is how the
\* statement's own callee occurs, calls below it are "nested"
Occurs(expr, kind, t) ==
    [n \in Callees |->
        seen[n] \cup (IF expr.k = "FuncCall" /\ expr.name = n
                      THEN {[kind |-> kind, t |-> t]} ELSE {})
                \cup (IF n \in CallsInAll(expr.sub)
                      THEN {[kind |-> "nested", t |-> <<>>]} ELSE {})]

Init ==
    /\ stack = <<ScopeFrame>>
    /\ stubs = EmptyDict
    /\ order = <<>>
    /\ open = <<>>
    /\ pc = "walk"
    /\ out = <<>>
    /\ rec = StubInfo(TRUE, VoidPtr, <<>>)
    /\ invoked = <<>>
    /\ how = EmptyDict
    /\ lastArgs = EmptyDict
    /\ seen = NoSeen
    /\ last = [op |-> "init"]
    /\ first = None
    /\ subs = <<>>
    /\ nstmt = 0 /\ nfunc = 0 /\ ncb = 0 /\ nfire = 0

----------------------------------------------------------------------------
(* The walk: TUVisitor.visit(ast) *)

InFunction == open # <<>>

\* visit_FuncDef up to the visit of the body
FuncDefEnter(node) ==
    /\ pc = "walk" /\ open = <<>> /\ nfunc < MaxFuncs
    /\ stack' = enter_FuncDef(node, stack)
    /\ open' = Append(open, [kind |-> "FuncDef", depth |-> Len(stack),
                             saved |-> Lookups(stack), ret |-> type_to_str(node.ret)])
    /\ nfunc' = nfunc + 1
    /\ last' = [op |-> "FuncDefEnter", node |-> node]
    /\ UNCHANGED <<stubs, order, pc, out, rec, invoked, how, lastArgs, seen, first,
                   subs, nstmt, ncb, nfire>>

\* visit_FuncDef after the body: self.scope.pop()
FuncDefExit ==
    /\ pc = "walk" /\ open # <<>> /\ open[Len(open)].kind = "FuncDef"
    /\ stack' = pop(stack)
    /\ open' = SubSeq(open, 1, Len(open) - 1)
    /\ last' = [op |-> "FuncDefExit", hid |-> Hidden(stack, open[Len(open)].saved)]
    /\ UNCHANGED <<stubs, order, pc, out, rec, invoked, how, lastArgs, seen, first,
                   subs, nstmt, nfunc, ncb, nfire>>

\* visit_Compound up to the first block item (a block nested in a body)
CompoundEnter ==
    /\ pc = "walk" /\ InFunction
    /\ Nesting < MaxNest
    /\ stack' = push_block(stack)
    /\ open' = Append(open, [kind |-> "Compound", depth |-> Len(stack),
                             saved |-> Lookups(stack), ret |-> None])
    /\ last' = [op |-> "CompoundEnter"]
    /\ UNCHANGED <<stubs, order, pc, out, rec, invoked, how, lastArgs, seen, first,
                   subs, nstmt, nfunc, ncb, nfire>>

\* visit_Compound after the last block item: self.scope.pop()
CompoundExit ==
    /\ pc = "walk" /\ open # <<>> /\ open[Len(open)].kind = "Compound"
    /\ stack' = pop(stack)
    /\ open' = SubSeq(open, 1, Len(open) - 1)
    /\ last' = [op |-> "CompoundExit", hid |-> Hidden(stack, open[Len(open)].saved)]
    /\ UNCHANGED <<stubs, order, pc, out, rec, invoked, how, lastArgs, seen, first,
                   subs, nstmt, nfunc, ncb, nfire>>

\* visit_Decl of a declaration at file scope or in a body
VisitDecl(node) ==
    /\ pc = "walk" /\ nstmt < MaxStmts
    /\ Commit(visit_Decl(node, St))
    /\ seen' = IF node.init = NoExpr THEN seen
               ELSE Occurs(node.init, "call", <<>>)
    /\ nstmt' = nstmt + 1
    /\ last' = [op |-> "Decl", node |-> node]
    /\ UNCHANGED <<open, pc, out, rec, invoked, first, subs, nfunc, ncb, nfire>>

\* visit_FuncCall of a call met as a statement of a body
VisitFuncCall(node) ==
    /\ pc = "walk" /\ InFunction /\ nstmt < MaxStmts
    /\ Commit(visit_FuncCall(node, St))
    /\ seen' = Occurs(node, "call", <<>>)
    /\ nstmt' = nstmt + 1
    /\ last' = [op |-> "FuncCall", node |-> node]
    /\ UNCHANGED <<open, pc, out, rec, invoked, first, subs, nfunc, ncb, nfire>>

\* visit_Return of a return statement of a body
VisitReturn(expr) ==
    /\ pc = "walk" /\ InFunction /\ nstmt < MaxStmts
    /\ Commit(visit_Return(expr, St))
    /\ seen' = Occurs(expr, "return", Declared)
    /\ nstmt' = nstmt + 1
    /\ last' = [op |-> "Return", node |-> expr]
    /\ UNCHANGED <<open, pc, out, rec, invoked, first, subs, nfunc, ncb, nfire>>

\* a client of the registry subscribes to a record between two top-level
\* items of the unit: StubInfo.add_cb
Subscribe(name) ==
    /\ pc = "walk" /\ open = <<>> /\ ncb < MaxCbs
    /\ name \in DOMAIN stubs
    /\ stubs' = [stubs EXCEPT ![name] = add_cb(@, ncb + 1)]
    /\ ncb' = ncb + 1
    /\ subs' = Append(subs, name)
    /\ last' = [op |-> "Subscribe", name |-> name]
    /\ UNCHANGED <<stack, order, open, pc, out, rec, invoked, how, lastArgs, seen,
                   first, nstmt, nfunc, nfire>>

\* run, line 243: vis.visit(ast) returns
WalkDone ==
    /\ pc = "walk" /\ open = <<>>
    /\ pc' = "done"
    /\ last' = [op |-> "WalkDone"]
    /\ UNCHANGED <<stack, stubs, order, open, out, rec, invoked, how, lastArgs, seen,
                   first, subs, nstmt, nfunc, ncb, nfire>>

\* run, line 245: emit_stubs(vis.stubs, ...)
Emit ==
    /\ pc = "done"
    /\ out' = emit_stubs(stubs, order)
    /\ pc' = "emitted"
    /\ last' = [op |-> "Emit"]
    /\ UNCHANGED <<stack, stubs, order, open, rec, invoked, how, lastArgs, seen, first,
                   subs, nstmt, nfunc, ncb, nfire>>

Next ==
    \/ \E node \in FuncDefs : FuncDefEnter(node)
    \/ FuncDefExit
    \/ CompoundEnter
    \/ CompoundExit
    \/ \E node \in Decls : VisitDecl(node)
    \/ \E node \in CallExprs : VisitFuncCall(node)
    \/ \E expr \in ReturnExprs : VisitReturn(expr)
    \/ \E name \in Callees : Subscribe(name)
    \/ WalkDone
    \/ Emit

Spec == Init /\ [][Next]_vars

----------------------------------------------------------------------------
(* One StubInfo used on its own: add_cb, fire and post_fire in any order    *)

RecTypes == {VoidPtr, IntT, FooT}

InitRecord ==
    /\ stack = <<ScopeFrame>>
    /\ stubs = EmptyDict
    /\ order = <<>>
    /\ open = <<>>
    /\ pc = "record"
    /\ out = <<>>
    /\ rec \in {StubInfo(TRUE, t, <<>>) : t \in {VoidPtr, IntT}}
    /\ invoked = <<>>
    /\ how = EmptyDict
    /\ lastArgs = EmptyDict
    /\ seen = NoSeen
    /\ last = [op |-> "init"]
    /\ first = None
    /\ subs = <<>>
    /\ nstmt = 0 /\ nfunc = 0 /\ ncb = 0 /\ nfire = 0

\* history: the calls of one firing, entered in the log
Logged(calls) ==
    invoked \o [i \in 1..Len(calls) |->
                    [cb |-> calls[i][1], typ |-> calls[i][2], firing |-> nfire + 1]]

\* rec.add_cb(cb) with a callback not registered before
RecAddCb ==
    /\ pc = "record" /\ ncb < MaxRecCbs
    /\ rec' = add_cb(rec, ncb + 1)
    /\ ncb' = ncb + 1
    /\ last' = [op |-> "add_cb"]
    /\ UNCHANGED <<stack, stubs, order, open, pc, out, invoked, how, lastArgs, seen,
                   first, subs, nstmt, nfunc, nfire>>

\* rec.fire(real)
RecFire(real) ==
    /\ pc = "record" /\ nfire < MaxFires
    /\ rec' = fire(rec, real).info
    /\ invoked' = Logged(fire(rec, real).calls)
    /\ first' = IF first = None THEN real ELSE first
    /\ nfire' = nfire + 1
    /\ last' = [op |-> "fire", real |-> real]
    /\ UNCHANGED <<stack, stubs, order, open, pc, out, how, lastArgs, seen, subs,
                   nstmt, nfunc, ncb>>

\* rec.post_fire()
RecPostFire ==
    /\ pc = "record" /\ nfire < MaxFires
    /\ rec' = post_fire(rec).info
    /\ invoked' = Logged(post_fire(rec).calls)
    /\ nfire' = nfire + 1
    /\ last' = [op |-> "post_fire"]
    /\ UNCHANGED <<stack, stubs, order, open, pc, out, how, lastArgs, seen, first,
                   subs, nstmt, nfunc, ncb>>

NextRecord ==
    \/ RecAddCb
    \/ \E real \in RecTypes : RecFire(real)
    \/ RecPostFire

SpecRecord == InitRecord /\ [][NextRecord]_vars

----------------------------------------------------------------------------
(* Properties *)

AfterWalk == pc \in {"done", "emitted"}

\* the step just taken visited `return n(...)`
Returned(n) == last.op = "Return" /\ last.node.k = "FuncCall" /\ last.node.name = n

\* the kinds of occurrence of a name seen so far
Kinds(n) == {o.kind : o \in seen[n]}

\* C1: a `return f(...)` statement met while the interesting name f has a
\* provisional record (created by a call site or a nested call, return type
\* still void*) replaces the record's return type by the return type of the
\* enclosing function.
C1_ReturnResolvesProvisional ==
    [][\A n \in Interesting :
          ( /\ nstmt' = nstmt + 1
            /\ last'.op = "Return" /\ last'.node.k = "FuncCall" /\ last'.node.name = n
            /\ n \in DOMAIN stubs
            /\ how[n] \in {"call", "nested"}
            /\ stubs[n].ret_type = VoidPtr )
          => stubs'[n].ret_type = Declared]_vars

\* C2: an interesting name that occurs only as the callee of returns inside
\* functions of declared return type T is held by the registry with return
\* type T, from the visit of the first such return to the end of the walk,
\* wherever the function stands in the unit and however deep the return is
\* nested in compound blocks.
C2_ReturnOnlyGetsEnclosingType ==
    \A n \in Interesting : \A T \in {IntT, FooT, Void} :
        (seen[n] = {[kind |-> "return", t |-> T]})
            => (n \in DOMAIN stubs /\ stubs[n].ret_type = T)

\* C2 witness: `return w();` was just visited inside a compound block nested
\* in the body of the second function of the unit, which returns FOO; w
\* occurred nowhere else and is registered with FOO.
C2_Witness ==
    /\ Returned("w") /\ Nesting = 1 /\ nfunc = 2
    /\ seen["w"] = {[kind |-> "return", t |-> FooT]}
    /\ "w" \in DOMAIN stubs /\ stubs["w"].ret_type = FooT

\* C3: every key of the registry is a name of the whitelist, at every point
\* of the walk.
C3_OnlyInterestingTracked == DOMAIN stubs \subseteq Interesting

\* C4: after the walk the parameter list of every interesting name that had
\* a call site is the list of argument types inferred at its call site
\* visited last.
C4_LastCallSiteWins ==
    AfterWalk =>
        \A n \in Interesting \cap DOMAIN lastArgs :
            n \in DOMAIN stubs /\ stubs[n].param_types = lastArgs[n].types

\* C4 witness: the walk is over, w was called in a statement and as the
\* callee of a return (two call sites), and the record holds the two
\* argument types of the later site.
C4_Witness ==
    /\ pc = "done"
    /\ {"call", "return"} \subseteq Kinds("w")
    /\ "w" \in DOMAIN lastArgs /\ Len(lastArgs["w"].types) = 2
    /\ stubs["w"].param_types = lastArgs["w"].types

\* C5, first half: a name bound in the top frame is found with that binding
TopHides ==
    \A n \in Vars :
        n \in DOMAIN stack[Len(stack)].symbols
            => find_var(stack, n) = stack[Len(stack)].symbols[n]

\* C5, second half: a pop gives every name the binding (or None) it had when
\* the popped frame was pushed
PopRestores ==
    Len(stack') < Len(stack) => Lookups(stack') = open[Len(open)].saved

\* C5: scope shadowing: the binding of the innermost frame is what find_var
\* returns, and once a frame is popped find_var returns for every name what
\* it returned before the push.
C5_Shadowing == [](TopHides) /\ [][PopRestores]_vars

\* C5 witness: a compound block that bound x to a type other than the outer
\* one has just been popped, and x is found with an outer binding.
C5_Witness ==
    /\ last.op = "CompoundExit" /\ "x" \in last.hid
    /\ find_var(stack, "x") # None

\* C6: the return type of a record created by the return heuristic is never
\* changed by a later step, and the record stays in the registry.
C6_FirstWriterWins ==
    [][\A n \in DOMAIN stubs :
          how[n] = "return"
              => (n \in DOMAIN stubs' /\ stubs'[n].ret_type = stubs[n].ret_type)]_vars

\* C6 witness: `return w(...)` was just visited in a function whose return
\* type differs from the type the heuristic gave w earlier.
C6_Witness ==
    /\ Returned("w") /\ "w" \in DOMAIN stubs /\ how["w"] = "return"
    /\ stubs["w"].ret_type # Declared

\* the log entries of callback c
CallsOf(c) == {i \in 1..Len(invoked) : invoked[i].cb = c}

\* C7: once the walk has visited a `return n(...)` naming a record that was
\* provisional, every callback subscribed to that record has been invoked
\* exactly once, with the record's return type.
C7_SubscribersFired ==
    \A n \in Interesting :
        (Returned(n) /\ n \in DOMAIN stubs /\ how[n] \in {"call", "nested"})
            => \A c \in 1..Len(subs) :
                   subs[c] = n
                       => /\ Cardinality(CallsOf(c)) = 1
                          /\ \A i \in CallsOf(c) : invoked[i].typ = stubs[n].ret_type

\* C8: once a record has been resolved by a fire, a later fire with another
\* type leaves its return type as the first fire set it.
C8_FireIdempotent == first # None => rec.ret_type = first

\* C9: over any sequence of add_cb, fire and post_fire on one record, every
\* registered callback is invoked at most once.
C9_NoDuplicateFiring ==
    \A i, j \in 1..Len(invoked) : invoked[i].cb = invoked[j].cb => i = j

\* C9 witness: two callbacks have been invoked, a firing took place after
\* the one that invoked the first, and the list is empty.
C9_Witness ==
    /\ Len(invoked) = 2
    /\ invoked[1].firing < nfire
    /\ rec.cbs = <<>>

\* the pieces of the output of a given form for a name
Pieces(form, n) == {i \in 1..Len(out) : out[i].form = form /\ out[i].name = n}

\* C10: the output holds exactly one definition and exactly one declaration
\* for every interesting name the walk saw in a call or a returned call.
C10_EmissionComplete ==
    pc = "emitted" =>
        \A n \in Interesting :
            seen[n] # {} => /\ Cardinality(Pieces("definition", n)) = 1
                            /\ Cardinality(Pieces("declaration", n)) = 1

\* the names arg<i> spelled in a piece of text
ArgNamesIn(text) ==
    {<<text[i], text[i + 1]>> : i \in {j \in 1..(Len(text) - 1) : text[j] = "arg"}}

\* the parameters a record stands for: none when the last call site had an
\* empty argument list
RealParams(info) == IF info.param_types = <<Void>> THEN 0 ELSE Len(info.param_types)

\* C11: the signature of an emitted definition names one parameter
\* arg0..arg(n-1) per entry of the record's parameter list, the discard
\* statement names exactly the parameters of the signature, and a stub whose
\* last call site had no arguments has the parameter list void and discards
\* no parameter name.
C11_DefinitionShape ==
    pc = "emitted" =>
        \A i \in 1..Len(out) :
            LET n == RealParams(stubs[out[i].name])
            IN  /\ ArgNamesIn(out[i].params) = {ArgName(k) : k \in 0..(n - 1)}
                /\ ArgNamesIn(out[i].dummy) = ArgNamesIn(out[i].params)
                /\ n = 0 => (out[i].params = <<"void">> /\ ArgNamesIn(out[i].dummy) = {})

\* the base name of a type string: its tokens without stars and blanks
IsNameToken(tok) == tok \notin {"*", " "}

BaseName(t) == SelectSeq(t, IsNameToken)

\* the type infer_expr_type gives an expression in the current state
Inferred(e) == infer_expr_type(e, St).t

\* C12, on every visit of a call statement with an interesting callee that
\* is not called below itself: the type recorded for an argument &e has one
\* pointer level more than the type inferred for e where the call stands,
\* and the same base name; so for v bound to a type T without pointer
\* levels, &v is recorded as T with one level and &&v as T with two.
AddressOfRecorded ==
    (nstmt' = nstmt + 1 /\ last'.op = "FuncCall" /\ last'.node.k = "FuncCall"
        /\ last'.node.name \in Interesting
        /\ last'.node.name \notin CallsInAll(last'.node.sub))
        => LET c == last'.node
           IN  \A i \in 1..Len(c.sub) :
                   (c.sub[i].k = "UnaryOp" /\ c.sub[i].name = "&")
                       => LET e == c.sub[i].sub[1]
                              t == stubs'[c.name].param_types[i]
                              v == IF e.k = "ID" THEN e.name ELSE e.sub[1].name
                              bound == find_var(stack, v)
                          IN  /\ PtrDepth(t) = PtrDepth(Inferred(e)) + 1
                              /\ BaseName(t) = BaseName(Inferred(e))
                              /\ (bound # None /\ PtrDepth(bound) = 0)
                                    => /\ PtrDepth(t) = (IF e.k = "ID" THEN 1 ELSE 2)
                                       /\ BaseName(t) = BaseName(bound)

\* C12: address-of composition.
C12_AddressOfComposition == [][AddressOfRecorded]_vars

\* C12 witness: w(&x, &&x) was just visited where x is bound to FOO, and the
\* record of w holds FOO with one and with two pointer levels.
C12_Witness ==
    /\ last.op = "FuncCall"
    /\ last.node = Call("w", <<AddrOf(ID("x")), AddrOf(AddrOf(ID("x")))>>)
    /\ find_var(stack, "x") = FooT
    /\ stubs["w"].param_types = <<<<"FOO", " ", "*">>, <<"FOO", " ", "*", " ", "*">>>>

\* C13, at every point: the stack is not empty, its bottom frame is the
\* global one, it holds one frame per visit of a function definition or
\* compound block in progress, and after the walk only the global frame
StackShape ==
    /\ Len(stack) >= 1
    /\ ~stack[1].is_func /\ stack[1].ret_type = None
    /\ Len(stack) = Len(open) + 1
    /\ \A i \in 2..Len(stack) : stack[i].is_func <=> open[i - 1].kind = "FuncDef"
    /\ AfterWalk => Len(stack) = 1

\* C13, at the end of the visit of a function definition or compound block:
\* the pop is made above the global frame and the depth is again the depth
\* the visit began with
PairedExit ==
    Len(open') < Len(open)
        => /\ Len(stack) > 1
           /\ Len(stack') = open[Len(open)].depth

\* C13: pushes and pops are paired along the walk.
C13_PushPopPairing == [](StackShape) /\ [][PairedExit]_vars

\* C13 witness: a compound block in which a statement was visited has just
\* been left, and the stack holds the global and the function frame.
C13_Witness ==
    /\ last.op = "CompoundExit" /\ nstmt >= 1
    /\ Len(stack) = 2 /\ stack[2].is_func

\* C14: the visit of a declaration of name n changes the scope stack only
\* by binding n in the top frame: every other name of the top frame keeps
\* its binding or stays unbound (the parameters of a declared prototype and
\* the members of a declared struct too), and the frames below are as before.
C14_DeclFrameEffect ==
    [][(nstmt' = nstmt + 1 /\ last'.op = "Decl")
          => LET n == last'.node.name
                 top == stack[Len(stack)].symbols
                 top2 == stack'[Len(stack)].symbols
             IN  /\ Len(stack') = Len(stack)
                 /\ \A i \in 1..(Len(stack) - 1) : stack'[i] = stack[i]
                 /\ DOMAIN top2 = DOMAIN top \cup {n}
                 /\ \A v \in DOMAIN top : v # n => top2[v] = top[v]]_vars

\* the place of a name in the insertion order of the registry
Place(ord, n) == CHOOSE i \in 1..Len(ord) : ord[i] = n

\* the calls to interesting names the walk can meet as statements
InterestingCalls == {c \in CallExprs : c.k = "FuncCall" /\ c.name \in Interesting}

\* C15, the inference visit_FuncCall makes for the arguments of call c in
\* the current state: an argument that is a call to g gets g's return type
\* if g has a record, and void* otherwise, with a placeholder record for g
\* added; no record that exists is changed
InferNested(c) ==
    LET inf == infer_args(c.sub, St)
    IN  /\ \A n \in DOMAIN stubs :
              n \in DOMAIN inf.st.stubs /\ inf.st.stubs[n] = stubs[n]
        /\ \A i \in 1..Len(c.sub) :
              c.sub[i].k = "FuncCall"
                  => LET g == c.sub[i].name
                     IN  IF g \in DOMAIN stubs
                         THEN inf.ts[i] = stubs[g].ret_type
                         ELSE /\ inf.ts[i] = VoidPtr
                              /\ g \in DOMAIN inf.st.stubs
                              /\ inf.st.stubs[g] = StubInfo(TRUE, VoidPtr, <<>>)

\* C15, the visit of a call statement f(.., g(..), ..) with f interesting:
\* the inference of its arguments is as above; where f is not called below
\* itself, the type recorded for the argument is the return type g had
\* before the visit, or void*, and a g registered by this visit comes before
\* a new f in the registry; no record's return type is changed
NestedRecorded ==
    (nstmt' = nstmt + 1 /\ last'.op = "FuncCall" /\ last'.node \in InterestingCalls)
        => LET c == last'.node
           IN  /\ InferNested(c)
               /\ \A n \in DOMAIN stubs :
                     n \in DOMAIN stubs' /\ stubs'[n].ret_type = stubs[n].ret_type
               /\ c.name \notin CallsInAll(c.sub)
                     => \A i \in 1..Len(c.sub) :
                           c.sub[i].k = "FuncCall"
                               => LET g == c.sub[i].name
                                  IN  /\ stubs'[c.name].param_types[i] =
                                            (IF g \in DOMAIN stubs THEN stubs[g].ret_type
                                             ELSE VoidPtr)
                                      /\ g \in DOMAIN stubs'
                                      /\ (g \notin DOMAIN stubs /\ c.name \notin DOMAIN stubs)
                                            => Place(order', g) < Place(order', c.name)

\* C15: inference of a nested call argument.
C15_NestedCallInference == [][NestedRecorded]_vars

\* C15 witness: h(w()) was just visited after the return heuristic had given
\* w the type FOO, and h's parameter is FOO; the record of w is as it was
\* but for its parameters.
C15_Witness ==
    /\ last.op = "FuncCall" /\ last.node = Call("h", <<Call("w", <<>>)>>)
    /\ how["w"] = "return" /\ stubs["w"].ret_type = FooT
    /\ stubs["h"].param_types = <<FooT>>

\* C16: between statements, and so at the end of the walk, every record of
\* an interesting name has a non-empty parameter list, the one inferred at
\* its last call site (<<void>> for an empty argument list): a record made
\* with an empty list by the return heuristic or by nested-call inference is
\* filled by the visit of the same call node, within the same statement.
C16_ParamsFilled ==
    \A n \in Interesting \cap DOMAIN stubs :
        /\ stubs[n].param_types # <<>>
        /\ n \in DOMAIN lastArgs
        /\ stubs[n].param_types = lastArgs[n].types

\* C16 witness: the walk of `return h(w());` is over; h was created by the
\* return heuristic and w by nested-call inference, both with an empty
\* list, and both lists are filled.
C16_Witness ==
    /\ pc = "done"
    /\ {"h", "w"} \subseteq DOMAIN stubs
    /\ how["h"] = "return" /\ how["w"] = "nested"
    /\ stubs["h"].param_types = <<VoidPtr>>
    /\ stubs["w"].param_types = <<Void>>

\* C17: at the end of the walk, where the last call site of an interesting
\* name f has a direct call to g as its i-th argument, the i-th parameter
\* type recorded for f is the return type g's record has then.
C17_SnapshotsConsistent ==
    AfterWalk =>
        \A f \in Interesting \cap DOMAIN lastArgs :
            LET c == lastArgs[f].node
            IN  \A i \in 1..Len(c.sub) :
                    c.sub[i].k = "FuncCall"
                        => /\ c.sub[i].name \in DOMAIN stubs
                           /\ f \in DOMAIN stubs
                           /\ Len(stubs[f].param_types) = Len(c.sub)
                           /\ stubs[f].param_types[i] = stubs[c.sub[i].name].ret_type

\* C17 witness: the walk is over, the last call site of h is h(w()), w's
\* record came from the return heuristic inside a function returning FOO,
\* and h's parameter is FOO like w's return type.
C17_Witness ==
    /\ pc = "done"
    /\ "h" \in DOMAIN lastArgs /\ "w" \in DOMAIN stubs
    /\ lastArgs["h"].node = Call("h", <<Call("w", <<>>)>>)
    /\ how["w"] = "return"
    /\ stubs["w"].ret_type = FooT
    /\ stubs["h"].param_types = <<FooT>>

====
